---------------------------- MODULE Spec2Model ----------------------------
(***************************************************************************)
(* A model of okrikunof/Image-processing-methods: the three evaluators of  *)
(* the repository (illuminance-calculation, brightness-calculation and the *)
(* recursive shader of scene-rendering) and the light model they use.      *)
(*                                                                         *)
(* Numbers.  The code computes in IEEE doubles.  The model computes in     *)
(* exact rationals [n, d] in lowest terms with d > 0, extended by the      *)
(* three non-finite values a division by zero produces: d = 0 with n = 1   *)
(* (+inf), n = -1 (-inf) and n = 0 (NaN).  The inputs the specifications   *)
(* draw have been chosen so that the norms the code takes are rational and *)
(* their square roots exact; the one root that may be irrational, the norm *)
(* of the half-vector of calculateBrightness, is rounded down to a tenth.  *)
(* Other rounding and signed zeros are not modelled.                       *)
(***************************************************************************)
EXTENDS Integers, Sequences, FiniteSets, TLC

VARIABLES
  bIn,      \* brightness-calculation: the arguments of calculateBrightness
  bpc,      \* "loop" inside the loop over the lights, "done" after the return
  bI,       \* the number of lights the loop has handled
  bE,       \* E of the last iteration: calculateIllumination's result
  bTotal,   \* totalBrightness
  bPrev,    \* history: totalBrightness before the last iteration of the loop
  bFirst    \* what an earlier evaluation on the same arguments returned (<< >>: none)

VARIABLES
  iIn,      \* illuminance-calculation: the arguments of calculateIllumination
  ipc,      \* "call" before the call, "done" after the return
  iCos,     \* <<cos_alpha, cos_theta>> of the call
  iE        \* the returned array E

VARIABLES
  lIn,      \* scene-rendering, a light on its own: [light, point, blockers]
  lpc,      \* "call" before the call of isOccluded, "done" after its return
  lProbe,   \* the RTCRay isOccluded handed to rtcOccluded1
  lHit,     \* whether the intersection service reported an intersection
  lRet,     \* what isOccluded returned
  lDir      \* what getDirection(point) returned (<< >> before the call)

VARIABLES
  scene,    \* scene-rendering: the lights, the occluders, the pixel's ray and
            \* what the intersection service answers
  spc,      \* "render" | "call" (shade is entered) | "return" (shade returned) | "done"
  sArg,     \* the arguments of the shade call being entered
  stack,    \* the shade activations waiting for their recursive call, outermost first
  sRet,     \* the colour the last shade call returned
  image,    \* the pixel's colour once it is stored
  acts,     \* history: every shade activation of the pixel, in call order
  rets      \* history: what each activation returned (<< >> while it runs)

VARIABLES
  eIn,      \* brightness-calculation, calculateIllumination on its own: its arguments
  epc,      \* "near" | "far" | "done"
  eNear,    \* its result for the light where it is
  eFar      \* its result for the light at twice the distance from PT

VARIABLES
  pIn,      \* brightness-calculation, lab_2.cpp: the arguments of its calculateBrightness
  ppc,      \* "loop" inside the loop over the lights, "done" after the return
  pI,       \* the number of lights the loop has handled
  pTotal,   \* totalBrightness
  pOut      \* what has been written to std::cout, in order

VARIABLES
  nIn,      \* Vector3D::normalized on its own: [variant, v]
  npc,      \* "call" before the call, "done" after the return
  nOut      \* the vector returned

VARIABLES
  aIn,      \* brightness-calculation, calculateBrightness on a split light list:
            \* [in, k], the arguments and the length of the first part
  apc,      \* "whole" | "left" | "right" | "swapped" | "done"
  aWhole,   \* its result for the whole list A ++ B
  aLeft,    \* its result for A, the first k lights
  aRight,   \* its result for B, the other lights
  aSwapped  \* its result for B ++ A

VARIABLES
  mIn,         \* brightness-calculation, main: [program, file], the program built
               \* (main.cpp or lab_2.cpp) and what input.txt holds
  mpc,         \* "open" | "count" | "lights" | "triangle" | "material" | "query" |
               \* "compute" | "print" | "exit"
  mI,          \* the loop index i of the loop that reads the lights
  mLights,     \* the vector lights
  mRead,       \* history: the sections read successfully, in order
  mCalled,     \* history: whether calculateBrightness has been called
  mBrightness, \* brightness, once calculateBrightness has returned
  mOut,        \* the lines written to std::cout, by kind
  mErr,        \* the lines written to std::cerr
  mExit        \* << >> while main runs, <<status>> once it has returned

mvars == <<mIn, mpc, mI, mLights, mRead, mCalled, mBrightness, mOut, mErr, mExit>>

avars == <<aIn, apc, aWhole, aLeft, aRight, aSwapped>>

bvars == <<bIn, bpc, bI, bE, bTotal, bPrev, bFirst>>

evars == <<eIn, epc, eNear, eFar>>

pvars == <<pIn, ppc, pI, pTotal, pOut>>

nvars == <<nIn, npc, nOut>>

svars == <<scene, spc, sArg, stack, sRet, image, acts, rets>>

ivars == <<iIn, ipc, iCos, iE>>

lvars == <<lIn, lpc, lProbe, lHit, lRet, lDir>>

vars == <<bvars, ivars, lvars, svars, evars, pvars, nvars, avars, mvars>>

---------------------------------------------------------------------------
(* double: exact rational arithmetic with inf and NaN *)

\* The one element of a singleton set.  C++ evaluates an argument once, when
\* the call is made: Only({ e : a \in {a_} }) is e with the argument a_
\* evaluated once and named a.
Only(S) == CHOOSE x \in S : TRUE

AbsI(i) == IF i < 0 THEN -i ELSE i

SignI(i) == IF i < 0 THEN -1 ELSE IF i > 0 THEN 1 ELSE 0

RECURSIVE Gcd(_, _)
Gcd(a_, b_) ==
  Only({
    IF b = 0 THEN a ELSE Gcd(b, a % b)
    : a \in {a_}, b \in {b_} })

\* The rational n/d in lowest terms; d = 0 gives inf, -inf or NaN.
R(n_, d_) ==
  Only({
    IF d = 0 THEN [n |-> SignI(n), d |-> 0]
    ELSE LET g == Gcd(AbsI(n), AbsI(d))
             s == SignI(d)
         IN  [n |-> (s * n) \div g, d |-> (s * d) \div g]
    : n \in {n_}, d \in {d_} })

Z(i) == [n |-> i, d |-> 1]

NaN == [n |-> 0, d |-> 0]

PosInf == [n |-> 1, d |-> 0]

IsNaN(a) == a.d = 0 /\ a.n = 0

IsFinite(a) == a.d # 0

\* a + b
RAdd(a_, b_) ==
  Only({
    IF a.d # 0 /\ b.d # 0
    THEN LET g == Gcd(a.d, b.d)
         IN  R(a.n * (b.d \div g) + b.n * (a.d \div g), (a.d \div g) * b.d)
    ELSE IF IsNaN(a) \/ IsNaN(b) THEN NaN
    ELSE IF a.d = 0 /\ b.d = 0 THEN (IF a.n = b.n THEN a ELSE NaN)
    ELSE IF a.d = 0 THEN a ELSE b
    : a \in {a_}, b \in {b_} })

\* -a
RNeg(a_) ==
  Only({
    [n |-> -a.n, d |-> a.d]
    : a \in {a_} })

\* a - b
RSub(a_, b_) ==
  Only({
    RAdd(a, RNeg(b))
    : a \in {a_}, b \in {b_} })

\* a * b
RMul(a_, b_) ==
  Only({
    IF a.d # 0 /\ b.d # 0
    THEN LET g1 == Gcd(AbsI(a.n), b.d)
             g2 == Gcd(AbsI(b.n), a.d)
         IN  IF a.n = 0 \/ b.n = 0 THEN Z(0)
             ELSE [n |-> (a.n \div g1) * (b.n \div g2),
                   d |-> (a.d \div g2) * (b.d \div g1)]
    ELSE IF a.n = 0 \/ b.n = 0 THEN NaN
    ELSE [n |-> SignI(a.n) * SignI(b.n), d |-> 0]
    : a \in {a_}, b \in {b_} })

\* 1.0 / a
RInv(a_) ==
  Only({
    IF a.d = 0 THEN (IF a.n = 0 THEN NaN ELSE Z(0))
    ELSE IF a.n = 0 THEN PosInf
    ELSE R(a.d, a.n)
    : a \in {a_} })

\* a / b
RDiv(a_, b_) ==
  Only({
    IF a.d # 0 /\ a.n = 0 /\ b.d # 0 /\ b.n = 0 THEN NaN
    ELSE RMul(a, RInv(b))
    : a \in {a_}, b \in {b_} })

\* a < b (false when either is NaN)
RLt(a_, b_) ==
  Only({
    IF IsNaN(a) \/ IsNaN(b) THEN FALSE
    ELSE IF a.d = 0 /\ b.d = 0 THEN a.n < b.n
    ELSE IF a.d = 0 THEN a.n < 0
    ELSE IF b.d = 0 THEN b.n > 0
    ELSE a.n * b.d < b.n * a.d
    : a \in {a_}, b \in {b_} })

\* a > b
RGt(a, b) == RLt(b, a)

\* a <= b, a >= b (false when either is NaN)
RLe(a_, b_) ==
  Only({
    ~IsNaN(a) /\ ~IsNaN(b) /\ ~RLt(b, a)
    : a \in {a_}, b \in {b_} })

RGe(a, b) == RLe(b, a)

\* a == b on doubles: NaN equals nothing
REq(a_, b_) ==
  Only({
    ~IsNaN(a) /\ ~IsNaN(b) /\ a = b
    : a \in {a_}, b \in {b_} })

\* std::max(a, b): (a < b) ? b : a
RMax(a_, b_) ==
  Only({
    IF RLt(a, b) THEN b ELSE a
    : a \in {a_}, b \in {b_} })

\* std::abs
RAbs(a_) ==
  Only({
    [n |-> AbsI(a.n), d |-> a.d]
    : a \in {a_} })

\* The largest k in lo..hi with k * k <= i, by bisection
RECURSIVE SqrtBetween(_, _, _)
SqrtBetween(i, lo, hi) ==
  IF lo >= hi THEN lo
  ELSE LET mid == (lo + hi + 1) \div 2
       IN  IF mid * mid <= i THEN SqrtBetween(i, mid, hi)
           ELSE SqrtBetween(i, lo, mid - 1)

FloorSqrt(i) == SqrtBetween(i, 0, IF i < 46340 THEN i ELSE 46340)

\* The exact integer square root; it has a value on perfect squares only.
ISqrt(i) == CHOOSE k \in {FloorSqrt(i)} : k * k = i

IsSquare(i) == i >= 0 /\ FloorSqrt(i) * FloorSqrt(i) = i

\* std::sqrt: exact when the root is rational, rounded down to a tenth
\* otherwise (the code rounds it to a double)
RSqrt(a_) ==
  Only({
    IF a.d = 0 THEN (IF a.n = 1 THEN PosInf ELSE NaN)
    ELSE IF a.n < 0 THEN NaN
    ELSE IF IsSquare(a.n) /\ IsSquare(a.d) THEN [n |-> ISqrt(a.n), d |-> ISqrt(a.d)]
    ELSE R(FloorSqrt(a.n * a.d * 100), a.d * 10)
    : a \in {a_} })

\* std::pow(b, e) for an integral exponent e >= 0; pow(x, 0) is 1 for every x
RECURSIVE RPow(_, _)
RPow(b_, e_) ==
  Only({
    IF e = 0 THEN Z(1) ELSE RMul(b, RPow(b, e - 1))
    : b \in {b_}, e \in {e_} })

---------------------------------------------------------------------------
(* Vector3D and Color: triples of doubles *)

V(x, y, z) == <<Z(x), Z(y), Z(z)>>

VAdd(a_, b_) ==
  Only({
    <<RAdd(a[1], b[1]), RAdd(a[2], b[2]), RAdd(a[3], b[3])>>
    : a \in {a_}, b \in {b_} })

VSub(a_, b_) ==
  Only({
    <<RSub(a[1], b[1]), RSub(a[2], b[2]), RSub(a[3], b[3])>>
    : a \in {a_}, b \in {b_} })

VScale(a_, k_) ==
  Only({
    <<RMul(a[1], k), RMul(a[2], k), RMul(a[3], k)>>
    : a \in {a_}, k \in {k_} })

VNeg(a_) ==
  Only({
    <<RNeg(a[1]), RNeg(a[2]), RNeg(a[3])>>
    : a \in {a_} })

dot(a_, b_) ==
  Only({
    RAdd(RAdd(RMul(a[1], b[1]), RMul(a[2], b[2])), RMul(a[3], b[3]))
    : a \in {a_}, b \in {b_} })

cross(a_, b_) ==
  Only({
    << RSub(RMul(a[2], b[3]), RMul(a[3], b[2])),
       RSub(RMul(a[3], b[1]), RMul(a[1], b[3])),
       RSub(RMul(a[1], b[2]), RMul(a[2], b[1])) >>
    : a \in {a_}, b \in {b_} })

norm(a_) ==
  Only({
    RSqrt(dot(a, a))
    : a \in {a_} })

\* Whether the norm of a finite vector is rational, so that norm(a) is exact.
RationalNorm(a) ==
  LET q == dot(a, a) IN q.d # 0 /\ IsSquare(q.n) /\ IsSquare(q.d)

\* brightness-calculation: (n != 0.0) ? (*this) * (1.0 / n) : *this
normalized(a) ==
  LET n == norm(a) IN IF ~REq(n, Z(0)) THEN VScale(a, RInv(n)) ELSE a

\* scene-rendering: n > 0 ? *this * (1.0 / n) : *this
normalizedS(a_) ==
  Only({
    LET n == norm(a) IN IF RGt(n, Z(0)) THEN VScale(a, RInv(n)) ELSE a
    : a \in {a_} })

\* illuminance-calculation: {x / n, y / n, z / n}, no guard
normalizedI(a) ==
  LET n == norm(a) IN <<RDiv(a[1], n), RDiv(a[2], n), RDiv(a[3], n)>>

Black == <<Z(0), Z(0), Z(0)>>

CAdd(a_, b_) ==
  Only({
    <<RAdd(a[1], b[1]), RAdd(a[2], b[2]), RAdd(a[3], b[3])>>
    : a \in {a_}, b \in {b_} })

CScale(a_, k_) ==
  Only({
    <<RMul(a[1], k), RMul(a[2], k), RMul(a[3], k)>>
    : a \in {a_}, k \in {k_} })

CMul(a_, b_) ==
  Only({
    <<RMul(a[1], b[1]), RMul(a[2], b[2]), RMul(a[3], b[3])>>
    : a \in {a_}, b \in {b_} })

NonNegative(c) == \A i \in 1..3 : RGe(c[i], Z(0))


---------------------------------------------------------------------------
(* Vector3D::normalized of the three programs, called on its own *)

Variants == {"brightness-calculation", "illuminance-calculation", "scene-rendering"}

\* The vectors with coordinates in -2..2 whose norm is rational
NVectors == {v \in {V(a, b, c) : a, b, c \in -2..2} : RationalNorm(v)}

NStart ==
  /\ nIn \in [variant : Variants, v : NVectors]
  /\ npc = "call"
  /\ nOut = << >>

NIdle ==
  /\ nIn = << >>
  /\ npc = "idle"
  /\ nOut = << >>

\* v.normalized()
NormalizedCall ==
  /\ npc = "call"
  /\ nOut' = CASE nIn.variant = "brightness-calculation" -> normalized(nIn.v)
               [] nIn.variant = "illuminance-calculation" -> normalizedI(nIn.v)
               [] nIn.variant = "scene-rendering" -> normalizedS(nIn.v)
  /\ npc' = "done"
  /\ UNCHANGED <<nIn, bvars, ivars, lvars, svars, evars, pvars, avars, mvars>>

---------------------------------------------------------------------------
(* brightness-calculation: illumination.cpp *)

\* <cmath> M_PI, to seven digits (355/113 = 3.1415929...)
M_PI == R(355, 113)

\* PT = P0 + edge1 * x + edge2 * y, the edges normalized
PointOnTriangle(P0, P1, P2, x, y) ==
  LET edge1 == normalized(VSub(P1, P0))
      edge2 == normalized(VSub(P2, P0))
  IN  VAdd(VAdd(P0, VScale(edge1, x)), VScale(edge2, y))

\* The cross product with its operands swapped
FaceNormal_Swapped(P0, P1, P2) == normalized(cross(VSub(P1, P0), VSub(P2, P0)))

\* N = (P2 - P0).cross(P1 - P0).normalized()
FaceNormal(P0, P1, P2) == normalized(cross(VSub(P2, P0), VSub(P1, P0)))

\* isSameSide with >= 0 for > 0
isSameSide_NonStrict(point, planePoint, normal, reference) ==
  RGe(RMul(dot(VSub(point, planePoint), normal),
           dot(VSub(reference, planePoint), normal)), Z(0))

isSameSide(point, planePoint, normal, reference) ==
  LET vecToPoint == VSub(point, planePoint)
      vecToRef   == VSub(reference, planePoint)
      dotPoint   == dot(vecToPoint, normal)
      dotRef     == dot(vecToRef, normal)
  IN  RGt(RMul(dotPoint, dotRef), Z(0))

\* The cosine used as it is, not clamped
Clamp0_Unclamped(c) == c

\* The clamp of a cosine term: std::max(0.0, c)
Clamp0(c) == RMax(Z(0), c)

\* The product without the division by R2
Attenuation_NoDistance(cos_theta, cos_alpha, R2) == RMul(cos_theta, cos_alpha)

\* The product the irradiance is scaled by: cos_theta * cos_alpha / R2
Attenuation(cos_theta, cos_alpha, R2) == RDiv(RMul(cos_theta, cos_alpha), R2)

calculateIllumination(light, P0, P1, P2, x, y, viewDir) ==
  LET PT == PointOnTriangle(P0, P1, P2, x, y)
      N  == FaceNormal(P0, P1, P2)
  IN  IF ~isSameSide(light.position, PT, N, viewDir) THEN Black
      ELSE LET s_vec == VSub(PT, light.position)
               R2 == RMul(norm(s_vec), norm(s_vec))
               s_normalized == normalized(s_vec)
               lightDirNormalized == normalized(light.direction)
               cos_alpha == Clamp0(dot(s_normalized, N))
               cos_theta == Clamp0(dot(s_normalized, lightDirNormalized))
           IN  CScale(light.intensity, Attenuation(cos_theta, cos_alpha, R2))

\* N of calculateBrightness: flipped when it points away from the view direction
OrientedNormal(P0, P1, P2, viewDir) ==
  LET N == FaceNormal(P0, P1, P2)
  IN  IF RLt(dot(viewDir, N), Z(0)) THEN VScale(N, Z(-1)) ELSE N

\* The contribution with the diffuse coefficient multiplied by a cosine of incidence
Contribution_CosineDiffuse(light, E, PT, N, viewDir, material) ==
  LET s == normalized(VSub(light.position, PT))
      h == normalized(VAdd(viewDir, s))
      diffuse == RMul(material.diffuse, Clamp0(dot(s, N)))
      specular == RMul(material.specular,
                       RPow(Clamp0(dot(h, N)), material.exponent))
  IN  CScale(CScale(CMul(E, material.color), RAdd(diffuse, specular)),
             RDiv(Z(1), M_PI))

\* One light's contribution: E * material.color * (diffuse + specular) * (1.0 / M_PI)
Contribution(light, E, PT, N, viewDir, material) ==
  LET s == normalized(VSub(light.position, PT))
      h == normalized(VAdd(viewDir, s))
      diffuse == material.diffuse
      specular == RMul(material.specular,
                       RPow(Clamp0(dot(h, N)), material.exponent))
  IN  CScale(CScale(CMul(E, material.color), RAdd(diffuse, specular)),
             RDiv(Z(1), M_PI))

\* The contribution stored in place of the sum
Accumulate_Overwrite(totalBrightness, contribution) == contribution

\* totalBrightness += contribution
Accumulate(totalBrightness, contribution) == CAdd(totalBrightness, contribution)

---------------------------------------------------------------------------
(* The arguments calculateBrightness is called with *)

MaxLights == 2

MaxCoord == 1

\* All sequences over S of length 0..n
RECURSIVE SeqsUpTo(_, _)
SeqsUpTo(S, n) ==
  IF n = 0 THEN {<< >>}
  ELSE LET shorter == SeqsUpTo(S, n - 1)
       IN  shorter \cup {Append(q, e) : q \in {r \in shorter : Len(r) = n - 1}, e \in S}

\* The lights input.txt may name, in the order it names them
BLightOrder ==
  << [position |-> V(0, 5, 0),  direction |-> V(0, -1, 0),   intensity |-> V(10, 10, 10)],
     [position |-> V(0, 0, 3),  direction |-> V(0, 0, -2),   intensity |-> V(9, 0, 18)],
     [position |-> V(0, 0, 3),  direction |-> V(0, 0, 1),    intensity |-> V(1, 1, 1)],
     [position |-> V(0, 0, -2), direction |-> V(0, 0, 1),    intensity |-> V(-4, 4, 0)],
     [position |-> V(1, 2, 2),  direction |-> V(-1, -2, -2), intensity |-> V(9, 9, 9)] >>

BLights == { BLightOrder[i] : i \in 1..Len(BLightOrder) }

\* The lights of BLightOrder at the positions S, in that order
RECURSIVE BLightList(_)
BLightList(S) ==
  IF S = {} THEN << >>
  ELSE LET last == CHOOSE i \in S : \A j \in S : j <= i
       IN  Append(BLightList(S \ {last}), BLightOrder[last])

\* The light lists: up to MaxLights lights of BLightOrder
BLightLists ==
  { BLightList(S) : S \in {T \in SUBSET (1..Len(BLightOrder)) : Cardinality(T) <= MaxLights} }

\* <<P0, P1, P2>>; the third has P1 = P0 (a degenerate triangle)
BTriangles ==
  { <<V(0, 0, 0), V(1, 0, 0), V(0, 1, 0)>>,
    <<V(0, 0, 0), V(0, 2, 0), V(3, 0, 0)>>,
    <<V(0, 0, 0), V(0, 0, 0), V(0, 1, 0)>>,
    <<V(0, 0, 1), V(0, 0, 3), V(0, 4, 1)>> }

BViewDirs == { V(0, 0, 1), V(0, 0, -3), V(1, 2, 2), V(0, 0, 0) }

BMaterials ==
  { [color |-> <<Z(1), Z(1), Z(0)>>, diffuse |-> R(7, 10), specular |-> R(3, 10), exponent |-> 2],
    [color |-> <<R(1, 2), Z(1), Z(1)>>, diffuse |-> Z(1), specular |-> Z(2), exponent |-> 0] }

BInputs ==
  [ lights : BLightLists, tri : BTriangles,
    x : 0..MaxCoord, y : 0..MaxCoord, viewDir : BViewDirs, material : BMaterials ]

\* The distance from PT to every light is rational.
BExact(in) ==
  LET PT == PointOnTriangle(in.tri[1], in.tri[2], in.tri[3], Z(in.x), Z(in.y))
  IN  \A i \in 1..Len(in.lights) : RationalNorm(VSub(PT, in.lights[i].position))

\* totalBrightness starting from an ambient term
TotalBrightnessInit_Ambient(left) == <<Z(1), Z(1), Z(1)>>

\* totalBrightness kept from one call to the next, as a static local would be
TotalBrightnessInit_Static(left) == left

\* Color totalBrightness: a local, default-constructed at every call,
\* whatever an earlier call left behind
TotalBrightnessInit(left) == Black

BPT == PointOnTriangle(bIn.tri[1], bIn.tri[2], bIn.tri[3], Z(bIn.x), Z(bIn.y))

BStart ==
  /\ bIn \in {in \in BInputs : BExact(in)}
  /\ bpc = "loop"
  /\ bI = 0
  /\ bE = Black
  /\ bTotal = TotalBrightnessInit(Black)
  /\ bPrev = Black
  /\ bFirst = << >>

\* One iteration of the loop of calculateBrightness over the lights
BrightnessLight ==
  /\ bpc = "loop"
  /\ bI < Len(bIn.lights)
  /\ LET light == bIn.lights[bI + 1]
         N == OrientedNormal(bIn.tri[1], bIn.tri[2], bIn.tri[3], bIn.viewDir)
         E == calculateIllumination(light, bIn.tri[1], bIn.tri[2], bIn.tri[3],
                                    Z(bIn.x), Z(bIn.y), bIn.viewDir)
     IN  /\ bE' = E
         /\ bTotal' = Accumulate(bTotal, Contribution(light, E, BPT, N, bIn.viewDir, bIn.material))
  /\ bPrev' = bTotal
  /\ bI' = bI + 1
  /\ UNCHANGED <<bIn, bpc, bFirst, ivars, lvars, svars, evars, pvars, nvars, avars, mvars>>

\* return totalBrightness
BrightnessReturn ==
  /\ bpc = "loop"
  /\ bI = Len(bIn.lights)
  /\ bpc' = "done"
  /\ UNCHANGED <<bIn, bI, bE, bTotal, bPrev, bFirst, ivars, lvars, svars, evars, pvars, nvars, avars, mvars>>

\* calculateBrightness called once more with the same arguments
BrightnessAgain ==
  /\ bpc = "done"
  /\ bFirst = << >>
  /\ bFirst' = bTotal
  /\ bpc' = "loop"
  /\ bI' = 0
  /\ bE' = Black
  /\ bTotal' = TotalBrightnessInit(bTotal)
  /\ bPrev' = Black
  /\ UNCHANGED <<bIn, ivars, lvars, svars, evars, pvars, nvars, avars, mvars>>

\* The program is not the one running: its variables rest.
BIdle ==
  /\ bIn = << >>
  /\ bpc = "idle"
  /\ bI = 0
  /\ bE = Black
  /\ bTotal = Black
  /\ bPrev = Black
  /\ bFirst = << >>

---------------------------------------------------------------------------
(* brightness-calculation: calculateBrightness as a function of its light
   list, called for a list, for its two parts and for the parts exchanged *)

\* totalBrightness after the loop has handled the first n lights
RECURSIVE BrightnessLoop(_, _, _)
BrightnessLoop(lights, n, in) ==
  IF n = 0 THEN TotalBrightnessInit(Black)
  ELSE Accumulate(BrightnessLoop(lights, n - 1, in),
                  Contribution(lights[n],
                               calculateIllumination(lights[n], in.tri[1], in.tri[2], in.tri[3],
                                                     Z(in.x), Z(in.y), in.viewDir),
                               PointOnTriangle(in.tri[1], in.tri[2], in.tri[3], Z(in.x), Z(in.y)),
                               OrientedNormal(in.tri[1], in.tri[2], in.tri[3], in.viewDir),
                               in.viewDir, in.material))

\* calculateBrightness(lights, P0, P1, P2, x, y, viewDir, material), the
\* other arguments taken from in
calculateBrightness(lights, in) == BrightnessLoop(lights, Len(lights), in)

\* The light list of aIn, its first k lights and the others
AWholeList == aIn.in.lights

ALeftList == SubSeq(aIn.in.lights, 1, aIn.k)

ARightList == SubSeq(aIn.in.lights, aIn.k + 1, Len(aIn.in.lights))

AInputs ==
  { [in |-> in, k |-> k] : in \in {i \in BInputs : BExact(i)}, k \in 0..MaxLights }

AStart ==
  /\ aIn \in {a \in AInputs : a.k <= Len(a.in.lights)}
  /\ apc = "whole"
  /\ aWhole = Black
  /\ aLeft = Black
  /\ aRight = Black
  /\ aSwapped = Black

AIdle ==
  /\ aIn = << >>
  /\ apc = "idle"
  /\ aWhole = Black
  /\ aLeft = Black
  /\ aRight = Black
  /\ aSwapped = Black

\* calculateBrightness(A ++ B, ...)
AdditiveWhole ==
  /\ apc = "whole"
  /\ aWhole' = calculateBrightness(AWholeList, aIn.in)
  /\ apc' = "left"
  /\ UNCHANGED <<aIn, aLeft, aRight, aSwapped, bvars, ivars, lvars, svars, evars, pvars, nvars, mvars>>

\* calculateBrightness(A, ...)
AdditiveLeft ==
  /\ apc = "left"
  /\ aLeft' = calculateBrightness(ALeftList, aIn.in)
  /\ apc' = "right"
  /\ UNCHANGED <<aIn, aWhole, aRight, aSwapped, bvars, ivars, lvars, svars, evars, pvars, nvars, mvars>>

\* calculateBrightness(B, ...)
AdditiveRight ==
  /\ apc = "right"
  /\ aRight' = calculateBrightness(ARightList, aIn.in)
  /\ apc' = "swapped"
  /\ UNCHANGED <<aIn, aWhole, aLeft, aSwapped, bvars, ivars, lvars, svars, evars, pvars, nvars, mvars>>

\* calculateBrightness(B ++ A, ...)
AdditiveSwapped ==
  /\ apc = "swapped"
  /\ aSwapped' = calculateBrightness(ARightList \o ALeftList, aIn.in)
  /\ apc' = "done"
  /\ UNCHANGED <<aIn, aWhole, aLeft, aRight, bvars, ivars, lvars, svars, evars, pvars, nvars, mvars>>

---------------------------------------------------------------------------
(* brightness-calculation: main of main.cpp and of lab_2.cpp *)

MaxCount == 2

Programs == {"main.cpp", "lab_2.cpp"}

\* The sections of input.txt in the order main reads them
Sections == <<"light count", "lights", "triangle", "material", "query point">>

\* What input.txt can hold: whether it can be opened; its first token, read
\* with >> into the int lightCount (ok: whether the extraction succeeds);
\* for each light, the triangle, the material and the query point, whether
\* every field of it can be extracted.
Files ==
  [ exists : BOOLEAN,
    count : {[ok |-> FALSE, value |-> 0]} \cup {[ok |-> TRUE, value |-> v] : v \in -1..MaxCount},
    light : [1..MaxCount -> BOOLEAN],
    triangle : BOOLEAN, material : BOOLEAN, query : BOOLEAN ]

\* The values the readable sections of input.txt hold: light i is the i-th
\* light of BLightOrder
FileValues ==
  [ lights |-> << >>,
    tri |-> <<V(0, 0, 0), V(0, 2, 0), V(3, 0, 0)>>, x |-> 1, y |-> 1,
    viewDir |-> V(0, 0, 1),
    material |-> [color |-> <<Z(1), Z(1), Z(0)>>, diffuse |-> R(7, 10),
                  specular |-> R(3, 10), exponent |-> 2] ]

\* The count test without the lower bound: lightCount < 0
CountRejected_NegativeOnly(count) == ~count.ok \/ count.value < 0

\* !(inputFile >> lightCount) || lightCount <= 0
CountRejected(count) == ~count.ok \/ count.value <= 0

\* What calculateBrightness writes to std::cout: nothing in illumination.cpp,
\* E and h.dot(s) for every light in lab_2.cpp
RECURSIVE DebugLines(_, _)
DebugLines(program, n) ==
  IF program = "main.cpp" \/ n = 0 THEN << >>
  ELSE DebugLines(program, n - 1) \o <<"E", "h.dot(s)">>

MStart ==
  /\ mIn \in [program : Programs, file : Files]
  /\ mpc = "open"
  /\ mI = 0
  /\ mLights = << >>
  /\ mRead = << >>
  /\ mCalled = FALSE
  /\ mBrightness = Black
  /\ mOut = << >>
  /\ mErr = << >>
  /\ mExit = << >>

MIdle ==
  /\ mIn = << >>
  /\ mpc = "idle"
  /\ mI = 0
  /\ mLights = << >>
  /\ mRead = << >>
  /\ mCalled = FALSE
  /\ mBrightness = Black
  /\ mOut = << >>
  /\ mErr = << >>
  /\ mExit = << >>

\* std::ifstream inputFile("input.txt"); if (!inputFile) return 1
MainOpen ==
  /\ mpc = "open"
  /\ IF ~mIn.file.exists
     THEN /\ mErr' = Append(mErr, "Failed to open 'input.txt'")
          /\ mExit' = <<1>>
          /\ mpc' = "exit"
     ELSE /\ mpc' = "count"
          /\ UNCHANGED <<mErr, mExit>>
  /\ UNCHANGED <<mIn, mI, mLights, mRead, mCalled, mBrightness, mOut>>
  /\ UNCHANGED <<bvars, ivars, lvars, svars, evars, pvars, nvars, avars>>

\* if (!(inputFile >> lightCount) || lightCount <= 0) return 1
MainCount ==
  /\ mpc = "count"
  /\ IF CountRejected(mIn.file.count)
     THEN /\ mErr' = Append(mErr, "Invalid number of light sources")
          /\ mExit' = <<1>>
          /\ mpc' = "exit"
          /\ UNCHANGED mRead
     ELSE /\ mRead' = Append(mRead, "light count")
          /\ mpc' = "lights"
          /\ UNCHANGED <<mErr, mExit>>
  /\ UNCHANGED <<mIn, mI, mLights, mCalled, mBrightness, mOut>>
  /\ UNCHANGED <<bvars, ivars, lvars, svars, evars, pvars, nvars, avars>>

\* One iteration of for (int i = 0; i < lightCount; ++i): the nine fields of
\* a light, return 1 when one cannot be read, lights.push_back otherwise
MainLight ==
  /\ mpc = "lights"
  /\ mI < mIn.file.count.value
  /\ IF ~mIn.file.light[mI + 1]
     THEN /\ mErr' = Append(mErr, "Invalid data for light source")
          /\ mExit' = <<1>>
          /\ mpc' = "exit"
          /\ UNCHANGED <<mI, mLights>>
     ELSE /\ mLights' = Append(mLights, BLightOrder[mI + 1])
          /\ mI' = mI + 1
          /\ UNCHANGED <<mpc, mErr, mExit>>
  /\ UNCHANGED <<mIn, mRead, mCalled, mBrightness, mOut>>
  /\ UNCHANGED <<bvars, ivars, lvars, svars, evars, pvars, nvars, avars>>

\* The loop over the lights is left; the nine coordinates of the triangle
MainTriangle ==
  /\ mpc = "lights"
  /\ ~(mI < mIn.file.count.value)
  /\ IF ~mIn.file.triangle
     THEN /\ mErr' = Append(mErr, "Invalid triangle coordinates")
          /\ mExit' = <<1>>
          /\ mpc' = "exit"
          /\ mRead' = Append(mRead, "lights")
     ELSE /\ mRead' = Append(Append(mRead, "lights"), "triangle")
          /\ mpc' = "material"
          /\ UNCHANGED <<mErr, mExit>>
  /\ UNCHANGED <<mIn, mI, mLights, mCalled, mBrightness, mOut>>
  /\ UNCHANGED <<bvars, ivars, lvars, svars, evars, pvars, nvars, avars>>

\* color.r, color.g, color.b, kd, ks, ke
MainMaterial ==
  /\ mpc = "material"
  /\ IF ~mIn.file.material
     THEN /\ mErr' = Append(mErr, "Invalid material parameters")
          /\ mExit' = <<1>>
          /\ mpc' = "exit"
          /\ UNCHANGED mRead
     ELSE /\ mRead' = Append(mRead, "material")
          /\ mpc' = "query"
          /\ UNCHANGED <<mErr, mExit>>
  /\ UNCHANGED <<mIn, mI, mLights, mCalled, mBrightness, mOut>>
  /\ UNCHANGED <<bvars, ivars, lvars, svars, evars, pvars, nvars, avars>>

\* x, y, viewDir
MainQuery ==
  /\ mpc = "query"
  /\ IF ~mIn.file.query
     THEN /\ mErr' = Append(mErr, "Invalid point or view direction data")
          /\ mExit' = <<1>>
          /\ mpc' = "exit"
          /\ UNCHANGED mRead
     ELSE /\ mRead' = Append(mRead, "query point")
          /\ mpc' = "compute"
          /\ UNCHANGED <<mErr, mExit>>
  /\ UNCHANGED <<mIn, mI, mLights, mCalled, mBrightness, mOut>>
  /\ UNCHANGED <<bvars, ivars, lvars, svars, evars, pvars, nvars, avars>>

\* Color brightness = calculateBrightness(lights, P0, P1, P2, x, y, viewDir, material)
MainCompute ==
  /\ mpc = "compute"
  /\ mCalled' = TRUE
  /\ mBrightness' = calculateBrightness(mLights, FileValues)
  /\ mOut' = mOut \o DebugLines(mIn.program, Len(mLights))
  /\ mpc' = "print"
  /\ UNCHANGED <<mIn, mI, mLights, mRead, mErr, mExit>>
  /\ UNCHANGED <<bvars, ivars, lvars, svars, evars, pvars, nvars, avars>>

\* std::cout << "Point brightness: (" ...; return 0.  The line is recorded by
\* its kind; its digits are not modelled.
MainPrint ==
  /\ mpc = "print"
  /\ mOut' = Append(mOut, "Point brightness")
  /\ mExit' = <<0>>
  /\ mpc' = "exit"
  /\ UNCHANGED <<mIn, mI, mLights, mRead, mCalled, mBrightness, mErr>>
  /\ UNCHANGED <<bvars, ivars, lvars, svars, evars, pvars, nvars, avars>>

---------------------------------------------------------------------------
(* brightness-calculation: calculateIllumination called for a light and for
   the same light moved away from PT *)

EInputs ==
  [ light : BLights, tri : BTriangles, x : 0..MaxCoord, y : 0..MaxCoord,
    viewDir : BViewDirs ]

EPT == PointOnTriangle(eIn.tri[1], eIn.tri[2], eIn.tri[3], Z(eIn.x), Z(eIn.y))

\* The norm calculateIllumination takes on these arguments is rational.
EExact(in) ==
  RationalNorm(VSub(PointOnTriangle(in.tri[1], in.tri[2], in.tri[3], Z(in.x), Z(in.y)),
                    in.light.position))

\* The light with the same direction and intensity, k times as far from PT
\* along the same line: PT + (position - PT) * k
MovedLight(light, PT, k) ==
  [light EXCEPT !.position = VAdd(PT, VScale(VSub(light.position, PT), Z(k)))]

EStart ==
  /\ eIn \in {in \in EInputs : EExact(in)}
  /\ epc = "near"
  /\ eNear = Black
  /\ eFar = Black

EIdle ==
  /\ eIn = << >>
  /\ epc = "idle"
  /\ eNear = Black
  /\ eFar = Black

\* E = calculateIllumination(light, P0, P1, P2, x, y, viewDir)
IrradianceNear ==
  /\ epc = "near"
  /\ eNear' = calculateIllumination(eIn.light, eIn.tri[1], eIn.tri[2], eIn.tri[3],
                                    Z(eIn.x), Z(eIn.y), eIn.viewDir)
  /\ epc' = "far"
  /\ UNCHANGED <<eIn, eFar, bvars, ivars, lvars, svars, pvars, nvars, avars, mvars>>

\* The same call for the light at twice the distance
IrradianceFar ==
  /\ epc = "far"
  /\ eFar' = calculateIllumination(MovedLight(eIn.light, EPT, 2), eIn.tri[1], eIn.tri[2],
                                   eIn.tri[3], Z(eIn.x), Z(eIn.y), eIn.viewDir)
  /\ epc' = "done"
  /\ UNCHANGED <<eIn, eNear, bvars, ivars, lvars, svars, pvars, nvars, avars, mvars>>

---------------------------------------------------------------------------
(* brightness-calculation: lab_2.cpp, the same evaluator in one file *)

PPT == PointOnTriangle(pIn.tri[1], pIn.tri[2], pIn.tri[3], Z(pIn.x), Z(pIn.y))

PStart ==
  /\ pIn \in {in \in BInputs : BExact(in)}
  /\ ppc = "loop"
  /\ pI = 0
  /\ pTotal = Black
  /\ pOut = << >>

PIdle ==
  /\ pIn = << >>
  /\ ppc = "idle"
  /\ pI = 0
  /\ pTotal = Black
  /\ pOut = << >>

\* One iteration of the loop of lab_2.cpp's calculateBrightness: it writes E
\* and h.dot(s) to std::cout
Lab2Light ==
  /\ ppc = "loop"
  /\ pI < Len(pIn.lights)
  /\ LET light == pIn.lights[pI + 1]
         N == OrientedNormal(pIn.tri[1], pIn.tri[2], pIn.tri[3], pIn.viewDir)
         E == calculateIllumination(light, pIn.tri[1], pIn.tri[2], pIn.tri[3],
                                    Z(pIn.x), Z(pIn.y), pIn.viewDir)
         s == normalized(VSub(light.position, PPT))
         h == normalized(VAdd(pIn.viewDir, s))
     IN  /\ pOut' = Append(Append(pOut, E), dot(h, s))
         /\ pTotal' = CAdd(pTotal, Contribution(light, E, PPT, N, pIn.viewDir, pIn.material))
  /\ pI' = pI + 1
  /\ UNCHANGED <<pIn, ppc, bvars, ivars, lvars, svars, evars, nvars, avars, mvars>>

\* return totalBrightness
Lab2Return ==
  /\ ppc = "loop"
  /\ pI = Len(pIn.lights)
  /\ ppc' = "done"
  /\ UNCHANGED <<pIn, pI, pTotal, pOut, bvars, ivars, lvars, svars, evars, nvars, avars, mvars>>

---------------------------------------------------------------------------
(* illuminance-calculation: illumination.cpp *)

\* cos_alpha = std::abs(s.dot(N) / s.norm())
IlluminanceCosAlpha(s, N) == RAbs(RDiv(dot(s, N), norm(s)))

\* cos_theta = s.dot(O) / s.norm()
IlluminanceCosTheta(s, O) == RDiv(dot(s, O), norm(s))

\* PT = P0 + edge1 * x + edge2 * y over the normalized edges
IlluminancePT(P0, P1, P2, x, y) ==
  VAdd(VAdd(P0, VScale(normalizedI(VSub(P1, P0)), x)), VScale(normalizedI(VSub(P2, P0)), y))

\* E[i] = I[i] * cos_alpha / R2 with I[i] = I0[i] * cos_theta
IlluminanceE(I0, cos_alpha, cos_theta, R2) ==
  << RDiv(RMul(RMul(I0[1], cos_theta), cos_alpha), R2),
     RDiv(RMul(RMul(I0[2], cos_theta), cos_alpha), R2),
     RDiv(RMul(RMul(I0[3], cos_theta), cos_alpha), R2) >>

\* The cosines and E for the vector s and the normal N
IlluminanceAt(I0, O, s, N) ==
  << IlluminanceCosAlpha(s, N), IlluminanceCosTheta(s, O),
     IlluminanceE(I0, IlluminanceCosAlpha(s, N), IlluminanceCosTheta(s, O),
                  RMul(norm(s), norm(s))) >>

\* calculateIllumination(I0, O, PL, P0, P1, P2, x, y): <<cos_alpha, cos_theta, E>>
IlluminanceCalculateIllumination(I0, O, PL, P0, P1, P2, x, y) ==
  IlluminanceAt(I0, O, VSub(IlluminancePT(P0, P1, P2, x, y), PL),
                normalizedI(cross(VSub(P2, P0), VSub(P1, P0))))

IIntensities == { V(10, 10, 10), V(1, 0, 2), V(0, 3, 0) }

IAxes == { V(0, -1, 0), V(0, 0, 1), V(0, 0, -2), V(1, 2, 2) }

IPositions == { V(0, 5, 0), V(0, 0, 3), V(0, 0, -2), V(1, 2, 2), V(0, 0, 0) }

IInputs ==
  [ I0 : IIntensities, O : IAxes, PL : IPositions, tri : BTriangles,
    x : 0..MaxCoord, y : 0..MaxCoord ]

\* The norm of s is rational, or s is NaN already (a degenerate triangle).
IExact(in) ==
  LET s == VSub(IlluminancePT(in.tri[1], in.tri[2], in.tri[3], Z(in.x), Z(in.y)), in.PL)
  IN  IsNaN(dot(s, s)) \/ RationalNorm(s)

IStart ==
  /\ iIn \in {in \in IInputs : IExact(in)}
  /\ ipc = "call"
  /\ iCos = <<Z(0), Z(0)>>
  /\ iE = Black

IIdle ==
  /\ iIn = << >>
  /\ ipc = "idle"
  /\ iCos = <<Z(0), Z(0)>>
  /\ iE = Black

\* main: E = calculateIllumination(I0, O, PL, P0, P1, P2, x, y)
IlluminanceCall ==
  /\ ipc = "call"
  /\ LET r == IlluminanceCalculateIllumination(iIn.I0, iIn.O, iIn.PL, iIn.tri[1],
                                               iIn.tri[2], iIn.tri[3], Z(iIn.x), Z(iIn.y))
     IN  /\ iCos' = <<r[1], r[2]>>
         /\ iE' = r[3]
  /\ ipc' = "done"
  /\ UNCHANGED <<iIn, bvars, lvars, svars, evars, pvars, nvars, avars, mvars>>

---------------------------------------------------------------------------
(* scene-rendering: the light model and the intersection service's probe *)

\* 0.001f, the near bound of every ray and the margin before a point light
Eps == R(1, 1000)

NegInf == [n |-> -1, d |-> 0]

PointLight(pos, intens) ==
  [kind |-> "point", position |-> pos, intensity |-> intens]

\* The constructor normalizes the direction.
DirectionalLight(dir, intens) ==
  [kind |-> "directional", direction |-> normalizedS(dir), intensity |-> intens]

\* Embree's rtcOccluded1 on a scene whose occluders lie at the distances
\* scene.blockers along every ray.  It reports an intersection when one lies
\* in [tnear, tfar].
ServiceReportsHit(sc, ray) ==
  \E t \in sc.blockers : RLe(ray.tnear, t) /\ RLe(t, ray.tfar)

\* An intersection found: tfar is set to -inf; none found: the ray is not changed.
rtcOccluded1(sc, ray) ==
  IF ServiceReportsHit(sc, ray) THEN [ray EXCEPT !.tfar = NegInf] ELSE ray

\* The far bound at the light itself, no margin
PointLightFar_NoMargin(position, point) == norm(VSub(position, point))

\* The far bound of a point light's probe
PointLightFar(position, point) == RSub(norm(VSub(position, point)), Eps)

\* The RTCRay that isOccluded builds
ShadowRay(light, point) ==
  IF light.kind = "point"
  THEN [org |-> point, dir |-> normalizedS(VSub(light.position, point)),
        tnear |-> Eps, tfar |-> PointLightFar(light.position, point)]
  ELSE [org |-> point, dir |-> VNeg(normalizedS(light.direction)),
        tnear |-> Eps, tfar |-> PosInf]

\* getDirection without the normalization
getDirection_Unnormalized(light, point) ==
  IF light.kind = "point" THEN VSub(light.position, point) ELSE VNeg(light.direction)

\* return ray.tfar < 0, after rtcOccluded1(scene, &ray)
isOccluded(light, point, sc) ==
  RLt(rtcOccluded1(sc, ShadowRay(light, point)).tfar, Z(0))

getDirection(light, point) ==
  IF light.kind = "point"
  THEN normalizedS(VSub(light.position, point))
  ELSE VNeg(normalizedS(light.direction))

getAttenuation(light, point) == Z(1)

\* Lights of the two classes, as main constructs them: a point light, and
\* directional lights down, up and along the 3-4-5 direction
LPoint == PointLight(V(0, 0, 5), V(2, 2, 2))

LDown == DirectionalLight(V(0, 0, -2), V(1, 0, 1))

LUp == DirectionalLight(V(0, 0, 3), V(1, 1, 0))

LSlant == DirectionalLight(V(-3, 0, -4), V(5, 5, 5))

\* A directional light constructed with the zero vector for its direction
LNull == DirectionalLight(V(0, 0, 0), V(1, 1, 1))

LLights == {LPoint, LDown, LUp, LSlant, LNull}

\* Shading points: the origin, the point light's own position, a point
\* nearer to the point light than Eps, and two more
LPoints ==
  { V(0, 0, 0), V(0, 0, 5), <<Z(0), Z(0), R(9999, 2000)>>, V(3, 0, 1), V(0, 0, 8) }

\* Where the scene's occluders are along a ray: nowhere, nearer than Eps, or farther
Blockers == { {}, {R(1, 2000)}, {Z(3)}, {Z(7)}, {R(1, 2000), Z(7)} }

LStart ==
  /\ lIn \in [light : LLights, point : LPoints, blockers : Blockers]
  /\ lpc = "call"
  /\ lProbe = << >>
  /\ lHit = FALSE
  /\ lRet = FALSE
  /\ lDir = << >>

LIdle ==
  /\ lIn = << >>
  /\ lpc = "idle"
  /\ lProbe = << >>
  /\ lHit = FALSE
  /\ lRet = FALSE
  /\ lDir = << >>

\* light->isOccluded(point, scene), the service's answer recorded beside it
IsOccludedCall ==
  /\ lpc = "call"
  /\ lProbe' = ShadowRay(lIn.light, lIn.point)
  /\ lHit' = ServiceReportsHit(lIn, ShadowRay(lIn.light, lIn.point))
  /\ lRet' = isOccluded(lIn.light, lIn.point, lIn)
  /\ lpc' = "done"
  /\ UNCHANGED <<lIn, lDir, bvars, ivars, svars, evars, pvars, nvars, avars, mvars>>

\* light->getDirection(point)
GetDirectionCall ==
  /\ lpc # "idle"
  /\ lDir = << >>
  /\ lDir' = getDirection(lIn.light, lIn.point)
  /\ UNCHANGED <<lIn, lpc, lProbe, lHit, lRet, bvars, ivars, svars, evars, pvars, nvars, avars, mvars>>

---------------------------------------------------------------------------
(* scene-rendering: shade and the pixel loop of main *)

MAX_DEPTH == 50

RTC_INVALID_GEOMETRY_ID == -1

MaxPrefix == 1

\* The depth test off by one: depth > MAX_DEPTH
DepthExhausted_OffByOne(depth) == depth > MAX_DEPTH

\* if (depth >= MAX_DEPTH) return Color(0, 0, 0)
DepthExhausted(depth) == depth >= MAX_DEPTH

\* The recursive call made with the caller's depth
NextDepth_Same(depth) == depth

\* shade(reflectedRay, scene, lights, reflectedDir, depth + 1)
NextDepth(depth) == depth + 1

\* rtcGetGeometryUserData(rtcGetGeometry(scene, geomID)): the material bound
\* to each geometry of the scene
GeometryUserData(geomID) ==
  CASE geomID = 0 ->
         [color |-> <<Z(1), Z(1), Z(0)>>, diffuse |-> R(1, 2), specular |-> Z(1),
          exponent |-> 2, specular_color |-> <<Z(1), Z(1), Z(1)>>, reflectivity |-> R(1, 2)]
    [] geomID = 1 ->
         [color |-> <<Z(0), Z(0), Z(1)>>, diffuse |-> Z(1), specular |-> Z(0),
          exponent |-> 1, specular_color |-> <<Z(1), Z(1), Z(1)>>, reflectivity |-> Z(1)]
    [] geomID = 2 ->
         [color |-> <<Z(1), Z(0), Z(0)>>, diffuse |-> Z(1), specular |-> Z(2),
          exponent |-> 0, specular_color |-> <<Z(0), Z(1), Z(0)>>, reflectivity |-> Z(0)]
    [] geomID = 3 ->
         [color |-> <<Z(1), Z(1), Z(1)>>, diffuse |-> R(1, 2), specular |-> Z(1),
          exponent |-> 0, specular_color |-> <<Z(1), Z(0), Z(1)>>, reflectivity |-> R(1, 4)]

\* What the intersection service can answer to rtcIntersect1: the geometry
\* hit, the distance tfar along the ray and the geometric normal Ng
\* (not normalized; the fourth is degenerate).  Outcome 0 is a miss.
Hits ==
  << [geomID |-> 0, tfar |-> Z(1), Ng |-> V(0, 0, 2)],
     [geomID |-> 1, tfar |-> Z(2), Ng |-> V(0, 0, -3)],
     [geomID |-> 2, tfar |-> Z(1), Ng |-> V(0, 0, 1)],
     [geomID |-> 3, tfar |-> Z(1), Ng |-> V(0, 0, 0)] >>

\* Embree's rtcIntersect1: on a hit it sets tfar, Ng and geomID; on a miss it
\* leaves the RTCRayHit as it is.
rtcIntersect1(outcome, rayhit) ==
  IF outcome = 0 THEN rayhit
  ELSE [ray |-> [rayhit.ray EXCEPT !.tfar = Hits[outcome].tfar],
        hit |-> [geomID |-> Hits[outcome].geomID, Ng |-> Hits[outcome].Ng]]

\* The service's answer to the k-th reflection ray of a pixel: the scene's
\* scripted answers first, then its tail (a miss, or the same hit for ever).
ReflectionOutcome(sc, k) == IF k <= Len(sc.prefix) THEN sc.prefix[k] ELSE sc.tail

\* A ray from org along dir, as main and shade set it up before rtcIntersect1
NewRayHit(org, dir) ==
  [ray |-> [org |-> org, dir |-> dir, tnear |-> Eps, tfar |-> PosInf],
   hit |-> [geomID |-> RTC_INVALID_GEOMETRY_ID, Ng |-> V(0, 0, 0)]]

\* The hit test that lets every ray through
IsHit_Always(rayhit) == TRUE

\* if (rayhit.hit.geomID != RTC_INVALID_GEOMETRY_ID)
IsHit(rayhit) == rayhit.hit.geomID # RTC_INVALID_GEOMETRY_ID

\* point = ray.org + ray.tfar * ray.dir
HitPoint(rayhit) == VAdd(rayhit.ray.org, VScale(rayhit.ray.dir, rayhit.ray.tfar))

\* normal = Vector3D(Ng).normalized()
HitNormal(rayhit) == normalizedS(rayhit.hit.Ng)

\* One unoccluded light's contribution without its specular term
LightTerm_NoSpecular(light, point, normal, viewDir, material) ==
  CScale(CMul(CScale(CScale(material.color, material.diffuse),
                     RMax(Z(0), dot(normal, getDirection(light, point)))),
              light.intensity), getAttenuation(light, point))

\* One unoccluded light's contribution to totalColor
LightTerm(light, point, normal, viewDir, material) ==
  LET L == getDirection(light, point)
      H == normalizedS(VAdd(viewDir, L))
      NdotL == RMax(Z(0), dot(normal, L))
      HdotN == RMax(Z(0), dot(H, normal))
      diffuse == CScale(CScale(material.color, material.diffuse), NdotL)
      specular == CScale(CScale(material.specular_color, material.specular),
                         RPow(HdotN, material.exponent))
  IN  CScale(CMul(CAdd(diffuse, specular), light.intensity), getAttenuation(light, point))

\* The loop over the lights from light i on: totalColor, and the shadow
\* probes handed to the intersection service, in order
RECURSIVE LightLoop(_, _, _, _, _, _, _)
LightLoop(i, acc, sc, point, normal, viewDir, material) ==
  IF i > Len(sc.lights) THEN acc
  ELSE LET light == sc.lights[i]
           probed == Append(acc.probes, ShadowRay(light, point))
       IN  LightLoop(i + 1,
             IF ~isOccluded(light, point, sc)
             THEN [color |-> CAdd(acc.color, LightTerm(light, point, normal, viewDir, material)),
                   probes |-> probed]
             ELSE [color |-> acc.color, probes |-> probed],
             sc, point, normal, viewDir, material)

\* The reflectivity test with >= 0.0 for > 0.0
Reflects_NonNegative(material) == RGe(material.reflectivity, Z(0))

\* if (material->reflectivity > 0.0)
Reflects(material) == RGt(material.reflectivity, Z(0))

\* reflectedDir = (incident - normal * (2.0 * NdotI)).normalized(), incident = -viewDir
ReflectedDir(viewDir, normal) ==
  LET incident == VNeg(viewDir)
      NdotI == dot(normal, incident)
  IN  normalizedS(VSub(incident, VScale(normal, RMul(Z(2), NdotI))))

\* The recursive colour added without its scaling by the reflectivity
Combine_Unscaled(totalColor, reflectedColor, reflectivity) ==
  CAdd(totalColor, reflectedColor)

\* The recursive colour alone, the local colour lost
Combine_NoLocal(totalColor, reflectedColor, reflectivity) ==
  CScale(reflectedColor, reflectivity)

\* totalColor = totalColor + reflectedColor * material->reflectivity
Combine(totalColor, reflectedColor, reflectivity) ==
  CAdd(totalColor, CScale(reflectedColor, reflectivity))

\* The number of reflection rays the pixel has traced so far
Traced == Cardinality({i \in 1..Len(acts) : acts[i].traced})

\* The scenes: the lights with the pixel's ray, the occluders, and the
\* intersection service's answers to the primary ray and the reflection rays
SViews ==
  { [eye |-> V(0, 0, 4), rayDir |-> V(0, 0, -1), lights |-> << >>],
    [eye |-> V(0, 0, 4), rayDir |-> V(0, 0, -1), lights |-> <<LPoint, LDown>>],
    [eye |-> V(0, 0, 4), rayDir |-> V(0, 0, -1), lights |-> <<LUp>>],
    [eye |-> V(-3, 0, 4), rayDir |-> <<R(3, 5), Z(0), R(-4, 5)>>, lights |-> <<LSlant>>] }

SBlockers == { {}, {Z(3)} }

\* The answer to every later reflection ray: a miss, the mirror, the matte
\* surface.
STails == {0, 2, 3}

Scenes ==
  { [eye |-> v.eye, rayDir |-> v.rayDir, lights |-> v.lights, blockers |-> b,
     primary |-> h, prefix |-> q, tail |-> t] :
    v \in SViews, b \in SBlockers, h \in 0..Len(Hits),
    q \in SeqsUpTo(1..Len(Hits), MaxPrefix), t \in STails }

SStart ==
  /\ scene \in Scenes
  /\ spc = "render"
  /\ sArg = << >>
  /\ stack = << >>
  /\ sRet = Black
  /\ image = << >>
  /\ acts = << >>
  /\ rets = << >>

SIdle ==
  /\ scene = << >>
  /\ spc = "idle"
  /\ sArg = << >>
  /\ stack = << >>
  /\ sRet = Black
  /\ image = << >>
  /\ acts = << >>
  /\ rets = << >>

\* main, one pixel: the primary ray; shade(rayhit, scene, lights, rayDir, 0)
\* on a hit, Color(0, 0, 0) stored otherwise
RenderPixel ==
  /\ spc = "render"
  /\ LET rayhit == rtcIntersect1(scene.primary, NewRayHit(scene.eye, scene.rayDir))
     IN  IF IsHit(rayhit)
         THEN /\ sArg' = [rayhit |-> rayhit, viewDir |-> scene.rayDir, depth |-> 0]
              /\ spc' = "call"
              /\ image' = image
         ELSE /\ image' = Black
              /\ spc' = "done"
              /\ sArg' = sArg
  /\ UNCHANGED <<scene, stack, sRet, acts, rets, bvars, ivars, lvars, evars, pvars, nvars, avars, mvars>>

\* shade from its entry to its recursive call, or to its return when it makes none
ShadeEnter ==
  /\ spc = "call"
  /\ IF DepthExhausted(sArg.depth)
     THEN /\ acts' = Append(acts, [depth |-> sArg.depth, exhausted |-> TRUE,
                                   geomID |-> sArg.rayhit.hit.geomID, point |-> << >>,
                                   normal |-> << >>, viewDir |-> sArg.viewDir,
                                   local |-> << >>, probes |-> << >>,
                                   traced |-> FALSE, hit |-> FALSE])
          /\ rets' = Append(rets, Black)
          /\ sRet' = Black
          /\ spc' = "return"
          /\ UNCHANGED <<sArg, stack>>
     ELSE \E material \in {GeometryUserData(sArg.rayhit.hit.geomID)},
             point \in {HitPoint(sArg.rayhit)},
             normal \in {HitNormal(sArg.rayhit)} :
          \E lit \in {LightLoop(1, [color |-> Black, probes |-> << >>], scene, point,
                                 normal, sArg.viewDir, material)},
             reflectedDir \in {ReflectedDir(sArg.viewDir, normal)},
             traces \in {Reflects(material)} :
          \E reflectedRay \in {rtcIntersect1(ReflectionOutcome(scene, Traced + 1),
                                              NewRayHit(point, reflectedDir))} :
          \E hits \in {traces /\ IsHit(reflectedRay)} :
              /\ acts' = Append(acts, [depth |-> sArg.depth, exhausted |-> FALSE,
                                       geomID |-> sArg.rayhit.hit.geomID, point |-> point,
                                       normal |-> normal, viewDir |-> sArg.viewDir,
                                       local |-> lit.color, probes |-> lit.probes,
                                       traced |-> traces, hit |-> hits])
              /\ IF hits
                 THEN /\ stack' = Append(stack, [material |-> material,
                                                 totalColor |-> lit.color,
                                                 depth |-> sArg.depth])
                      /\ sArg' = [rayhit |-> reflectedRay, viewDir |-> reflectedDir,
                                  depth |-> NextDepth(sArg.depth)]
                      /\ rets' = Append(rets, << >>)
                      /\ UNCHANGED <<spc, sRet>>
                 ELSE /\ rets' = Append(rets, lit.color)
                      /\ sRet' = lit.color
                      /\ spc' = "return"
                      /\ UNCHANGED <<sArg, stack>>
  /\ UNCHANGED <<scene, image, bvars, ivars, lvars, evars, pvars, nvars, avars, mvars>>

\* shade after its recursive call returned: totalColor + reflectedColor * reflectivity
ShadeResume ==
  /\ spc = "return"
  /\ stack # << >>
  /\ LET frame == stack[Len(stack)]
         total == Combine(frame.totalColor, sRet, frame.material.reflectivity)
     IN  /\ sRet' = total
         /\ rets' = [rets EXCEPT ![Len(stack)] = total]
  /\ stack' = SubSeq(stack, 1, Len(stack) - 1)
  /\ UNCHANGED <<scene, spc, sArg, image, acts, bvars, ivars, lvars, evars, pvars, nvars, avars, mvars>>

\* main: image[j * image_width + i] = shade(...)
StorePixel ==
  /\ spc = "return"
  /\ stack = << >>
  /\ image' = sRet
  /\ spc' = "done"
  /\ UNCHANGED <<scene, sArg, stack, sRet, acts, rets, bvars, ivars, lvars, evars, pvars, nvars, avars, mvars>>

---------------------------------------------------------------------------
(* The specifications: one per program *)

BInit == BStart /\ IIdle /\ LIdle /\ SIdle /\ EIdle /\ PIdle /\ NIdle /\ AIdle /\ MIdle

BNext == BrightnessLight \/ BrightnessReturn \/ BrightnessAgain

SpecBrightness == BInit /\ [][BNext]_vars

IInit == IStart /\ BIdle /\ LIdle /\ SIdle /\ EIdle /\ PIdle /\ NIdle /\ AIdle /\ MIdle

INext == IlluminanceCall

SpecIlluminance == IInit /\ [][INext]_vars

LInit == LStart /\ BIdle /\ IIdle /\ SIdle /\ EIdle /\ PIdle /\ NIdle /\ AIdle /\ MIdle

LNext == IsOccludedCall \/ GetDirectionCall

SpecLight == LInit /\ [][LNext]_vars

SInit == SStart /\ BIdle /\ IIdle /\ LIdle /\ EIdle /\ PIdle /\ NIdle /\ AIdle /\ MIdle

SNext == RenderPixel \/ ShadeEnter \/ ShadeResume \/ StorePixel

SpecShade == SInit /\ [][SNext]_vars

\* The program is sequential and never waits: while a step is enabled, it is
\* taken.  The pixels under the directional light that points up, with every
\* answer of the intersection service.
SLiveInit ==
  /\ SInit
  /\ scene.lights = <<LUp>>
  /\ scene.blockers = {}

SpecShadeLive == SLiveInit /\ [][SNext]_vars /\ WF_vars(SNext)

EInit == EStart /\ BIdle /\ IIdle /\ LIdle /\ SIdle /\ PIdle /\ NIdle /\ AIdle /\ MIdle

ENext == IrradianceNear \/ IrradianceFar

SpecIrradiance == EInit /\ [][ENext]_vars

PInit == PStart /\ BIdle /\ IIdle /\ LIdle /\ SIdle /\ EIdle /\ NIdle /\ AIdle /\ MIdle

PNext == Lab2Light \/ Lab2Return

SpecLab2 == PInit /\ [][PNext]_vars

NInit == NStart /\ BIdle /\ IIdle /\ LIdle /\ SIdle /\ EIdle /\ PIdle /\ AIdle /\ MIdle

NNext == NormalizedCall

SpecNormalized == NInit /\ [][NNext]_vars

AInit == AStart /\ BIdle /\ IIdle /\ LIdle /\ SIdle /\ EIdle /\ PIdle /\ NIdle /\ MIdle

ANext == AdditiveWhole \/ AdditiveLeft \/ AdditiveRight \/ AdditiveSwapped

SpecAdditive == AInit /\ [][ANext]_vars

MInit == MStart /\ BIdle /\ IIdle /\ LIdle /\ SIdle /\ EIdle /\ PIdle /\ NIdle /\ AIdle

MNext ==
  \/ MainOpen \/ MainCount \/ MainLight \/ MainTriangle
  \/ MainMaterial \/ MainQuery \/ MainCompute \/ MainPrint

SpecMain == MInit /\ [][MNext]_vars

---------------------------------------------------------------------------
(* The claims *)

\* The light the loop of calculateBrightness handled last
BLight == bIn.lights[bI]

\* The signed distances of the light and of the view reference from the plane
\* through PT with normal N, multiplied
BSideProduct ==
  LET N == FaceNormal(bIn.tri[1], bIn.tri[2], bIn.tri[3])
  IN  RMul(dot(VSub(BLight.position, BPT), N), dot(VSub(bIn.viewDir, BPT), N))

\* The intersection service's answers that a pixel's shade calls can meet
SceneOutcomes == {scene.primary, scene.tail} \cup {scene.prefix[k] : k \in 1..Len(scene.prefix)}

\* The shade activation entered last, and the one that returned last
LastAct == acts[Len(acts)]

Returned == Len(stack) + 1

\* The local shading term of the spec for activation a: the sum over the
\* lights that isOccluded reports unoccluded of (diffuse + specular) *
\* intensity * attenuation, the first n lights taken
RECURSIVE LocalTerm(_, _)
LocalTerm(a, n) ==
  IF n = 0 THEN Black
  ELSE LET light == scene.lights[n]
           m == GeometryUserData(a.geomID)
           L == getDirection(light, a.point)
           H == normalizedS(VAdd(a.viewDir, L))
           NL == dot(a.normal, L)
           HN == dot(H, a.normal)
           diffuse == CScale(m.color, RMul(m.diffuse, IF RLt(NL, Z(0)) THEN Z(0) ELSE NL))
           specular == CScale(m.specular_color,
                              RMul(m.specular, RPow(IF RLt(HN, Z(0)) THEN Z(0) ELSE HN, m.exponent)))
       IN  IF isOccluded(light, a.point, scene) THEN LocalTerm(a, n - 1)
           ELSE CAdd(LocalTerm(a, n - 1),
                     CScale(CMul(CAdd(diffuse, specular), light.intensity),
                            getAttenuation(light, a.point)))

\* The colours of activations k.. as they enter the pixel: each local colour
\* times w, the product of the reflectivities of the activations before it
RECURSIVE ChainSum(_, _)
ChainSum(k, w) ==
  IF k > Len(acts) \/ acts[k].exhausted THEN Black
  ELSE CAdd(CScale(acts[k].local, w),
            ChainSum(k + 1, RMul(w, GeometryUserData(acts[k].geomID).reflectivity)))

\* C1: in a scene in which every material has reflectivity > 0 and the
\* intersection service reports a hit for every reflection ray, a top-level
\* shade(..., depth = 0) makes exactly MAX_DEPTH recursive shade calls, never
\* more, and the call made with depth = MAX_DEPTH returns without tracing a
\* ray (no shadow probe, no reflection ray).
C1_Scene ==
  /\ scene.primary # 0 /\ scene.tail # 0
  /\ \A h \in SceneOutcomes : RGt(GeometryUserData(Hits[h].geomID).reflectivity, Z(0))

C1_DepthCap ==
  (spc # "idle" /\ C1_Scene) =>
    /\ Len(acts) - 1 <= MAX_DEPTH
    /\ Traced <= MAX_DEPTH
    /\ \A i \in 1..Len(acts) : acts[i].depth = MAX_DEPTH =>
         acts[i].exhausted /\ ~acts[i].traced /\ acts[i].probes = << >>
    /\ spc = "done" =>
         /\ Len(acts) - 1 = MAX_DEPTH
         /\ Traced = MAX_DEPTH
         /\ LastAct.depth = MAX_DEPTH

C1_Witness ==
  /\ spc = "done" /\ C1_Scene
  /\ Len(acts) = MAX_DEPTH + 1
  /\ LastAct.exhausted

\* C2: when the hit material has reflectivity = 0, shade returns exactly the
\* local shading term (the sum over the unoccluded lights), traces no
\* reflection ray and issues no recursive shade call.
C2_MatteIsLocal ==
  (acts # << >> /\ ~LastAct.exhausted
     /\ GeometryUserData(LastAct.geomID).reflectivity = Z(0)) =>
    /\ ~LastAct.traced /\ ~LastAct.hit
    /\ spc # "call"
    /\ rets[Len(acts)] = LocalTerm(LastAct, Len(scene.lights))

C2_Witness ==
  /\ spc = "done"
  /\ Len(acts) = 3
  /\ GeometryUserData(LastAct.geomID).reflectivity = Z(0)
  /\ rets[Len(acts)] # Black
  /\ rets[Len(acts)] = LastAct.local

\* C3: a reflection-ray miss or recursion-depth exhaustion makes only the
\* recursive term black: the activation that traced the reflection ray
\* returns its full local colour, at every depth; the exhausted call itself
\* returns black.
C3_TerminalKeepsLocal ==
  (spc = "return") =>
    /\ (acts[Returned].traced /\ ~acts[Returned].hit)
         => rets[Returned] = acts[Returned].local
    /\ (acts[Returned].hit /\ acts[Returned + 1].exhausted)
         => rets[Returned] = acts[Returned].local
    /\ acts[Returned].exhausted => rets[Returned] = Black

C3_Witness ==
  /\ spc = "return"
  /\ acts[Returned].hit
  /\ acts[Returned].depth = MAX_DEPTH - 1
  /\ acts[Returned + 1].exhausted
  /\ rets[Returned] = acts[Returned].local
  /\ rets[Returned] # Black

\* C4: when the reflection ray hits, shade returns local colour +
\* reflectivity * shade(new hit, reflected direction, depth + 1); so the
\* local colour of the k-th surface of a chain enters the pixel multiplied
\* by the product of the reflectivities of surfaces 0..k-1, and depth grows
\* by exactly 1 per reflection.
C4_ReflectionChain ==
  /\ \A i \in 1..Len(acts) : acts[i].depth = i - 1
  /\ (spc = "return" /\ acts[Returned].hit) =>
       rets[Returned] =
         CAdd(acts[Returned].local,
              CScale(rets[Returned + 1], GeometryUserData(acts[Returned].geomID).reflectivity))
  /\ (spc = "done" /\ acts # << >>) => image = ChainSum(1, Z(1))

C4_Witness ==
  /\ spc = "done"
  /\ Len(acts) = 3
  /\ GeometryUserData(acts[1].geomID).reflectivity = R(1, 2)
  /\ GeometryUserData(acts[2].geomID).reflectivity = R(1, 4)
  /\ acts[3].local # Black
  /\ image = CAdd(acts[1].local, CAdd(CScale(acts[2].local, R(1, 2)),
                                      CScale(acts[3].local, R(1, 8))))

\* C5: every light is asked isOccluded(point, scene) once per shaded hit; a
\* light that reports occluded contributes nothing to the local colour, an
\* unoccluded light contributes (diffuse + specular) * intensity *
\* attenuation with diffuse = color * diffuse * max(0, N.L) and specular =
\* specular_color * specular * max(0, H.N)^exponent.
C5_LocalColour ==
  (acts # << >> /\ ~LastAct.exhausted) =>
    /\ Len(LastAct.probes) = Len(scene.lights)
    /\ \A i \in 1..Len(scene.lights) :
         /\ LastAct.probes[i].org = LastAct.point
         /\ LastAct.probes[i].dir = getDirection(scene.lights[i], LastAct.point)
    /\ LastAct.local = LocalTerm(LastAct, Len(scene.lights))

C5_Witness ==
  /\ acts # << >> /\ ~LastAct.exhausted
  /\ Len(scene.lights) = 2
  /\ ~isOccluded(scene.lights[1], LastAct.point, scene)
  /\ isOccluded(scene.lights[2], LastAct.point, scene)
  /\ GeometryUserData(LastAct.geomID).specular # Z(0)
  /\ LastAct.local # Black

\* Whether activation a is one at which the chain of shade calls ends: its
\* depth is MAX_DEPTH or more, its material has reflectivity <= 0, or its
\* reflection ray missed
C21_Terminal(a) ==
  \/ a.depth >= MAX_DEPTH
  \/ RLe(GeometryUserData(a.geomID).reflectivity, Z(0))
  \/ (a.traced /\ ~a.hit)

C21_Chain ==
  spc # "idle" =>
    /\ \A i \in 1..Len(acts) : acts[i].depth = i - 1 /\ acts[i].depth <= MAX_DEPTH
    /\ \A i \in 1..(Len(acts) - 1) : ~C21_Terminal(acts[i])
    /\ (acts # << >> /\ spc # "call") => C21_Terminal(LastAct)
    /\ (acts # << >> /\ spc = "call") => ~C21_Terminal(LastAct)
    /\ Traced <= MAX_DEPTH
    /\ Len(stack) <= Len(acts) /\ (spc = "call" => Len(stack) = Len(acts))
    /\ \A i \in 1..Len(stack) : stack[i].depth = i - 1

\* C21: whatever the intersection service answers and whatever the materials
\* are, the pixel's top-level shade call terminates; its shade invocations
\* form one chain with depths 0, 1, 2, ..., each at most MAX_DEPTH; the chain
\* ends at the first invocation with depth >= MAX_DEPTH, a reflection miss or
\* a material with reflectivity <= 0; at most MAX_DEPTH reflection rays are
\* traced.
C21_Terminates == []C21_Chain /\ <>(spc = "done")

C21_Witness ==
  /\ spc = "done"
  /\ Len(acts) = 2
  /\ LastAct.traced /\ ~LastAct.hit
  /\ LastAct.depth = 1
  /\ image = rets[1]

\* C22: shade is entered only with a hit record whose geometry id is valid.
\* The render loop calls shade only when the primary ray hit, and stores
\* black for the pixel otherwise; the recursion calls shade only when the
\* reflection ray hit; the material is never looked up for an invalid
\* geometry id.
C22_ValidGeometry ==
  /\ spc = "call" =>
        /\ sArg.rayhit.hit.geomID # RTC_INVALID_GEOMETRY_ID
        /\ IF sArg.depth = 0 THEN scene.primary # 0
           ELSE ReflectionOutcome(scene, sArg.depth) # 0
  /\ \A i \in 1..Len(acts) :
        /\ acts[i].geomID # RTC_INVALID_GEOMETRY_ID
        /\ acts[i].geomID \in {Hits[h].geomID : h \in 1..Len(Hits)}
        /\ IF i = 1 THEN scene.primary # 0 ELSE ReflectionOutcome(scene, i - 1) # 0
  /\ (spc = "done" /\ scene.primary = 0) => (image = Black /\ acts = << >>)
  /\ (spc = "done" /\ scene.primary # 0) => acts # << >>

C22_Witness ==
  /\ spc = "call"
  /\ sArg.depth = 1
  /\ sArg.rayhit.hit.geomID = 3
  /\ scene.primary # 0 /\ ReflectionOutcome(scene, 1) # 0
  /\ ReflectionOutcome(scene, 2) = 0

\* C23: the reflected direction computed by shade is the mirror image of the
\* incoming ray about the surface normal: it leaves the surface on the side
\* the incoming ray arrived from; for a ray direction viewDir with
\* N.viewDir # 0 the reflected direction R satisfies N.R = -(N.viewDir).
\* Activation i + 1 is entered with the reflected direction of activation i.
C23_MirrorDirection ==
  \A i \in 1..(Len(acts) - 1) :
    ~REq(dot(acts[i].normal, acts[i].viewDir), Z(0)) =>
      REq(dot(acts[i].normal, acts[i + 1].viewDir),
          RNeg(dot(acts[i].normal, acts[i].viewDir)))

\* Whether light k of the scene is unoccluded at activation a's point and
\* lies behind a's surface (N.L <= 0)
C24_Behind(a, k) ==
  /\ ~isOccluded(scene.lights[k], a.point, scene)
  /\ RLe(dot(a.normal, getDirection(scene.lights[k], a.point)), Z(0))

\* C24: in shade, an unoccluded light that lies behind the shaded surface
\* (N.L <= 0) contributes exactly zero to the local colour, diffuse and
\* specular terms together, for every material, one with specular exponent 0
\* included: where every light is occluded or behind the surface, and one is
\* behind it, the local colour is black.
C24_BehindIsDark ==
  \A i \in 1..Len(acts) :
    ( /\ ~acts[i].exhausted
      /\ \E k \in 1..Len(scene.lights) : C24_Behind(acts[i], k)
      /\ \A k \in 1..Len(scene.lights) :
           isOccluded(scene.lights[k], acts[i].point, scene) \/ C24_Behind(acts[i], k) )
    => acts[i].local = Black

\* C25: calculateBrightness is additive over the light list: with the other
\* arguments the same, the brightness of A ++ B is brightness(A) +
\* brightness(B) channel by channel; a light's contribution depends neither
\* on the other lights nor on its place in the list, so B ++ A gives the
\* same brightness.
C25_Additive ==
  apc = "done" =>
    /\ aWhole = CAdd(aLeft, aRight)
    /\ aSwapped = aWhole

C25_Witness ==
  /\ apc = "done"
  /\ aIn.k = 1 /\ Len(aIn.in.lights) = 2
  /\ aLeft # Black /\ aRight # Black /\ aLeft # aRight
  /\ aWhole = CAdd(aLeft, aRight)

\* The number of leading sections of Sections that input.txt lets main read:
\* 0 when the file is missing or the light count is unreadable or <= 0, 5
\* when every section can be read
C26_Readable(file) ==
  IF ~file.exists \/ ~file.count.ok \/ file.count.value <= 0 THEN 0
  ELSE IF \E i \in 1..file.count.value : ~file.light[i] THEN 1
  ELSE IF ~file.triangle THEN 2
  ELSE IF ~file.material THEN 3
  ELSE IF ~file.query THEN 4
  ELSE 5

\* C26: the brightness-calculation program reads its input sections in the
\* fixed order light count, lights, triangle, material, query point; at the
\* first section that fails (input file missing, light count unreadable or
\* <= 0, any unreadable field) it exits with status 1 without calling
\* calculateBrightness or printing a brightness; it prints the brightness and
\* exits with status 0 only after every section was read successfully.
C26_ReadOrder ==
  mpc # "idle" =>
    /\ mRead = SubSeq(Sections, 1, Len(mRead))
    /\ Len(mRead) <= C26_Readable(mIn.file)
    /\ mCalled => mRead = Sections
    /\ (\E i \in 1..Len(mOut) : mOut[i] = "Point brightness") => (mCalled /\ mExit = <<0>>)
    /\ mExit # << >> => mpc = "exit"
    /\ mpc = "exit" =>
         IF C26_Readable(mIn.file) < Len(Sections)
         THEN /\ mExit = <<1>>
              /\ Len(mRead) = C26_Readable(mIn.file)
              /\ ~mCalled
              /\ mOut = << >>
              /\ Len(mErr) = 1
         ELSE /\ mExit = <<0>>
              /\ mRead = Sections
              /\ mCalled
              /\ mOut[Len(mOut)] = "Point brightness"
              /\ mErr = << >>

C26_Witness ==
  /\ mpc = "exit"
  /\ mExit = <<1>>
  /\ mRead = <<"light count", "lights", "triangle">>
  /\ Len(mLights) = 2
  /\ ~mIn.file.material
  /\ mIn.program = "lab_2.cpp"
  /\ mOut = << >>

\* C11: with the direction from PT to the light, the normal, the light's
\* axis and the intensity held fixed, doubling the distance between PT and
\* the light divides every channel of calculateIllumination's result by
\* four; the result never grows in magnitude with the distance.
C11_InverseSquare ==
  epc = "done" =>
    /\ eFar = CScale(eNear, R(1, 4))
    /\ \A c \in 1..3 : RLe(RAbs(eFar[c]), RAbs(eNear[c]))

C11_Witness ==
  /\ epc = "done"
  /\ eNear = <<Z(1), Z(0), Z(2)>>
  /\ eFar = <<R(1, 4), Z(0), R(1, 2)>>

\* C12 (as stated): when the light passes the backface test, with s the unit
\* vector from PT to the light (light.position - PT) and R2 its squared
\* length, calculateIllumination returns intensity * (cos_theta * cos_alpha /
\* R2), cos_alpha = max(0, s.N), cos_theta = max(0, s.lightAxisDirection).
C12_IrradianceFormula ==
  LET N == FaceNormal(eIn.tri[1], eIn.tri[2], eIn.tri[3])
      toLight == VSub(eIn.light.position, EPT)
      s == normalized(toLight)
      R2 == dot(toLight, toLight)
      cos_alpha == IF RLt(dot(s, N), Z(0)) THEN Z(0) ELSE dot(s, N)
      axis == normalized(eIn.light.direction)
      cos_theta == IF RLt(dot(s, axis), Z(0)) THEN Z(0) ELSE dot(s, axis)
  IN  (epc = "far" /\ isSameSide(eIn.light.position, EPT, N, eIn.viewDir)) =>
        eNear = CScale(eIn.light.intensity, RDiv(RMul(cos_theta, cos_alpha), R2))

\* C13: for the single light at (0,5,0) with intensity (10,10,10) and
\* direction (0,-1,0), the triangle (0,0,0), (1,0,0), (0,1,0), x = 0, y = 0
\* and viewDir = (0,0,1): the face normal is (0,0,-1) before orientation, and
\* both calculateIllumination's irradiance and calculateBrightness's result
\* are exactly (0,0,0).
C13_Scenario ==
  /\ bIn # << >>
  /\ bIn.lights = << [position |-> V(0, 5, 0), direction |-> V(0, -1, 0),
                      intensity |-> V(10, 10, 10)] >>
  /\ bIn.tri = <<V(0, 0, 0), V(1, 0, 0), V(0, 1, 0)>>
  /\ bIn.x = 0 /\ bIn.y = 0
  /\ bIn.viewDir = V(0, 0, 1)

C13_Regression ==
  C13_Scenario =>
    /\ BPT = V(0, 0, 0)
    /\ FaceNormal(bIn.tri[1], bIn.tri[2], bIn.tri[3]) = V(0, 0, -1)
    /\ bI >= 1 => bE = Black
    /\ bpc = "done" => bTotal = Black

C13_Witness ==
  /\ C13_Scenario
  /\ bpc = "done" /\ bI = 1
  /\ bE = Black /\ bTotal = Black
  /\ bIn.material.diffuse # Z(0)

\* C14: calculateBrightness called with an empty light list returns (0,0,0),
\* for every triangle, local coordinate, view direction and material.
C14_NoLights ==
  (bpc = "done" /\ bIn.lights = << >>) => bTotal = Black

C14_Witness ==
  /\ bpc = "done"
  /\ bIn.lights = << >>
  /\ bIn.tri[2] = bIn.tri[1]
  /\ bIn.x = 1
  /\ bTotal = Black

\* C15: for each light calculateBrightness adds exactly E * material.color *
\* (diffuse + specular) * (1/pi), E that light's calculateIllumination
\* result, diffuse the plain coefficient material.diffuse, specular =
\* material.specular * max(0, h.N)^exponent with N oriented toward the
\* viewer; a light whose E is black adds nothing.
C15_Term(light, E) ==
  LET N0 == normalized(cross(VSub(bIn.tri[3], bIn.tri[1]), VSub(bIn.tri[2], bIn.tri[1])))
      N == IF RLt(dot(bIn.viewDir, N0), Z(0)) THEN VNeg(N0) ELSE N0
      s == normalized(VSub(light.position, BPT))
      h == normalized(VAdd(bIn.viewDir, s))
      hN == IF RLt(dot(h, N), Z(0)) THEN Z(0) ELSE dot(h, N)
      specular == RMul(bIn.material.specular, RPow(hN, bIn.material.exponent))
      weight == RMul(RAdd(bIn.material.diffuse, specular), RDiv(Z(1), M_PI))
  IN  CScale(CMul(E, bIn.material.color), weight)

C15_Contribution ==
  bI >= 1 =>
    /\ bTotal = CAdd(bPrev, C15_Term(BLight, bE))
    /\ bE = Black => bTotal = bPrev

C15_Witness ==
  /\ bI = 1
  /\ bIn.material.exponent = 2
  /\ bE = <<Z(1), Z(0), Z(2)>>
  /\ bTotal = <<R(113, 355), Z(0), Z(0)>>

C17_NoSideEffect ==
  ppc # "idle" => pOut = << >>

\* C18 (as stated), for calculateIllumination of illuminance-calculation:
\* the direction vectors fed into the cosine terms have been normalized by
\* the evaluator, whatever length the caller passed in; so cos_theta is the
\* dot product of the unit vector along s and the unit vector along the axis
\* O, and cos_alpha the magnitude of that of the unit s and the unit N.
C18_DirectionsNormalized ==
  LET edge1 == normalizedI(VSub(iIn.tri[2], iIn.tri[1]))
      edge2 == normalizedI(VSub(iIn.tri[3], iIn.tri[1]))
      PT == VAdd(VAdd(iIn.tri[1], VScale(edge1, Z(iIn.x))), VScale(edge2, Z(iIn.y)))
      N == normalizedI(cross(VSub(iIn.tri[3], iIn.tri[1]), VSub(iIn.tri[2], iIn.tri[1])))
      s == normalizedI(VSub(PT, iIn.PL))
      O == normalizedI(iIn.O)
  IN  (ipc = "done" /\ IsFinite(iCos[1]) /\ IsFinite(iCos[2])) =>
        /\ iCos[1] = RAbs(dot(s, N))
        /\ iCos[2] = dot(s, O)

\* C19 (as stated): normalizing a zero-length vector returns the original
\* vector unchanged, in Vector3D::normalized of every program
\* (brightness-calculation, illuminance-calculation, scene-rendering).
C19_ZeroUnchanged ==
  (npc = "done" /\ nIn.v = V(0, 0, 0)) => nOut = nIn.v

\* What getDirection must return for the light and point of lIn: the unit
\* vector from the point toward the light
C20_Toward ==
  /\ dot(lDir, lDir) = Z(1)
  /\ lIn.light.kind = "point" =>
       /\ lDir = normalizedS(VSub(lIn.light.position, lIn.point))
       /\ RGt(dot(lDir, VSub(lIn.light.position, lIn.point)), Z(0))
  /\ lIn.light.kind = "directional" =>
       /\ lDir = VNeg(normalizedS(lIn.light.direction))
       /\ \A p \in LPoints : getDirection(lIn.light, p) = lDir

\* C20 (as stated): for every light variant and every point,
\* getDirection(point) returns a unit-length vector pointing from the point
\* toward the light: normalize(position - point) for PointLight, the negated
\* normalized direction, the same for every point, for DirectionalLight.
C20_UnitDirectionAnyPoint ==
  lDir # << >> => C20_Toward

\* C20 (amended): for every PointLight and every point other than the
\* light's own position, and for every DirectionalLight constructed with a
\* non-zero direction and every point, getDirection(point) returns a
\* unit-length vector pointing from the point toward the light:
\* normalize(position - point) for PointLight, the negated normalized
\* direction, the same for every point, for DirectionalLight.
C20_UnitDirection ==
  (/\ lDir # << >>
   /\ lIn.light.kind = "point" => lIn.point # lIn.light.position
   /\ lIn.light.kind = "directional" => lIn.light.direction # V(0, 0, 0)) =>
    C20_Toward

C20_Witness ==
  /\ lIn.light.kind = "point"
  /\ lIn.point = V(3, 0, 1)
  /\ lDir = <<R(-3, 5), Z(0), R(4, 5)>>

\* C6 (as stated): isOccluded returns true if and only if the intersection
\* service reports an intersection inside the probe's [near, far] interval.
C6_OccludedIffServiceHit == lpc = "done" => (lRet <=> lHit)

\* C7: every shadow probe starts at the shading point with the strictly
\* positive near bound 0.001 along getDirection(point); a point light's far
\* bound is the distance to the light minus the same 0.001, a directional
\* light's is unbounded; the probe is always handed to the service, and what
\* the service reports inside the interval is never dropped.
C7_ProbeBounds ==
  lpc = "done" =>
    /\ lProbe # << >>
    /\ lProbe.org = lIn.point
    /\ lProbe.dir = getDirection(lIn.light, lIn.point)
    /\ lProbe.tnear = R(1, 1000) /\ RGt(lProbe.tnear, Z(0))
    /\ lIn.light.kind = "point" =>
         lProbe.tfar = RSub(norm(VSub(lIn.light.position, lIn.point)), lProbe.tnear)
    /\ lIn.light.kind = "directional" => lProbe.tfar = PosInf
    /\ lHit => lRet

C7_Witness ==
  /\ lpc = "done"
  /\ lIn.light.kind = "point"
  /\ lIn.point # lIn.light.position
  /\ lProbe.tfar = R(4999, 1000)
  /\ lHit /\ lRet

\* C8: whenever the light position and the view reference lie on opposite
\* sides of the plane through PT with normal N, or either lies in the plane
\* (product of the signed distances <= 0), calculateIllumination returns
\* exactly black.
C8_BackfaceBlack ==
  (bI >= 1 /\ RLe(BSideProduct, Z(0))) => bE = Black

C8_Witness ==
  /\ bI >= 1
  /\ RLt(BSideProduct, Z(0))
  /\ BLight.intensity # Black
  /\ bE = Black

\* C9 (as stated), for illuminance-calculation: cos_alpha and cos_theta are
\* >= 0 when they enter the product, and a non-negative light intensity gives
\* no negative channel of E.
C9_CosinesClamped ==
  ipc = "done" =>
    /\ ~RLt(iCos[1], Z(0))
    /\ ~RLt(iCos[2], Z(0))
    /\ NonNegative(iIn.I0) => \A c \in 1..3 : ~RLt(iE[c], Z(0))

\* C10 (as stated): for any light and any surface point strictly on the
\* illuminated side, calculateIllumination's result is non-negative in every
\* colour channel.
C10_NonNegativeAnyLight ==
  (bI >= 1 /\ RGt(BSideProduct, Z(0))) => NonNegative(bE)

\* C10 (amended): for any light whose intensity is non-negative in every
\* channel and any surface point strictly on the illuminated side,
\* calculateIllumination's result is non-negative in every colour channel.
C10_NonNegative ==
  (bI >= 1 /\ RGt(BSideProduct, Z(0)) /\ NonNegative(BLight.intensity))
    => NonNegative(bE)

C10_Witness ==
  /\ bI >= 1
  /\ RGt(BSideProduct, Z(0))
  /\ NonNegative(BLight.intensity)
  /\ \E c \in 1..3 : RGt(bE[c], Z(0))

=============================================================================
